---- MODULE Spec2Model ----
(***************************************************************************)
(* Tendency evaluation engine of qgs (functions/tendencies.py) and its     *)
(* use by the MAOOAM driver (qgs_maooam.py).                               *)
(*                                                                         *)
(* create_tendencies builds the coefficient providers, couples them,       *)
(* assembles the QgsTensor, closes the two evaluators f and Df over the    *)
(* coordinate/value arrays and returns them; an integrator then calls the  *)
(* evaluators.  Reals are modelled by integers, so sums are exact and do   *)
(* not depend on the order of summation.  Array indices are 0-based in the *)
(* program and 1-based here: program index i is position i + 1.            *)
(***************************************************************************)
EXTENDS Integers, Sequences, FiniteSets, TLC

\* ------------------------------------------------------------- bounds
\* Number of state variables of the model configuration (params.ndim).
NDim == 2
\* Largest number of stored entries of the trilinear tensor.
MaxNnz == 2

\* Coefficient values, state components and times the inputs are drawn from.
Vals == {-1, 2}
XVals == {-1, 2}
Times == {0, 1}
\* Calling contexts (integrator threads) that may evaluate f and Df.
Callers == {1, 2}

\* Coordinates (i, j, k) the builder's entries are drawn from: a constant,
\* two linear, two quadratic, a square term, an entry of the augmentation
\* row 0 and an entry of the last row.
SampleCoords ==
    { <<1, 0, 0>>, <<1, 0, 2>>, <<1, 1, 2>>, <<1, 2, 1>>,
      <<2, 1, 1>>, <<0, 1, 2>>, <<NDim, NDim, 0>> }

Entries == { <<c[1], c[2], c[3], v>> : c \in SampleCoords, v \in Vals }

RECURSIVE SeqsUpTo(_, _)
SeqsUpTo(S, n) ==
    IF n = 0 THEN { <<>> }
    ELSE LET r == SeqsUpTo(S, n - 1)
         IN  r \cup { Append(s, e) : s \in { q \in r : Len(q) = n - 1 }, e \in S }

RECURSIVE VectorsOfLen(_)
VectorsOfLen(n) ==
    IF n = 0 THEN { <<>> }
    ELSE { Append(s, e) : s \in VectorsOfLen(n - 1), e \in XVals }

\* State vectors of the configured length, and vectors one shorter or longer.
States == VectorsOfLen(NDim)
WrongStates == VectorsOfLen(NDim - 1) \cup VectorsOfLen(NDim + 1)

\* ------------------------------------------------- sparse COO tensors
\* A sparse tensor object as the builder exposes it: coords is 3 x nnz,
\* data has nnz values.
CooTensor(es) ==
    [ coords |-> << [n \in 1..Len(es) |-> es[n][1]],
                    [n \in 1..Len(es) |-> es[n][2]],
                    [n \in 1..Len(es) |-> es[n][3]] >>,
      data   |-> [n \in 1..Len(es) |-> es[n][4]] ]

EntriesOf(T) ==
    [ n \in 1..Len(T.data) |->
        <<T.coords[1][n], T.coords[2][n], T.coords[3][n], T.data[n]>> ]

Tensors == { CooTensor(es) : es \in SeqsUpTo(Entries, MaxNnz) }

\* Every tensor with one entry, at any coordinates in [0, N].
AllCoords == { <<i, j, k>> : i \in 0..NDim, j \in 0..NDim, k \in 0..NDim }
SingleTensors ==
    { CooTensor(<< <<c[1], c[2], c[3], v>> >>) : c \in AllCoords, v \in Vals }
SmallTensors == { T \in Tensors : Len(T.data) <= 1 }

\* coords.T : the nnz x 3 array the evaluators close over.
TransposeCoords(c) == [ n \in 1..Len(c[1]) |-> <<c[1][n], c[2][n], c[3][n]>> ]

\* jacobian_tensor of the builder: the tensor plus the tensor with its two
\* contracted indices swapped, J[i,j,k] = T[i,j,k] + T[i,k,j].
JacobianFromTensor(T) ==
    LET es == EntriesOf(T)
        sw == [ n \in 1..Len(es) |-> <<es[n][1], es[n][3], es[n][2], es[n][4]>> ]
    IN  CooTensor(es \o sw)

EmptyTensor == CooTensor(<<>>)

\* ------------------------------------------------------ call outcomes
Failure == [status |-> "error", value |-> <<>>]
NoOut == [status |-> "none", value |-> <<>>]
Ok(v) == [status |-> "ok", value |-> v]

\* ------------------------------------------------ contraction kernels
\* np.zeros(n)
RECURSIVE zeros(_)
zeros(n) == IF n = 0 THEN <<>> ELSE Append(zeros(n - 1), 0)

\* np.zeros((n, n))
RECURSIVE zero_rows(_, _)
zero_rows(n, width) ==
    IF n = 0 THEN <<>> ELSE Append(zero_rows(n - 1, width), zeros(width))

\* Variant: an entry overwrites its row instead of adding to it.
RECURSIVE mul3_loop_overwrite(_, _, _, _, _, _)
mul3_loop_overwrite(coo_, value, vec_a, vec_b, n, res) ==
    IF n > Len(coo_) THEN Ok(res)
    ELSE LET i == coo_[n][1]
             j == coo_[n][2]
             k == coo_[n][3]
         IN  IF i + 1 > Len(res) \/ j + 1 > Len(vec_a) \/ k + 1 > Len(vec_b)
             THEN Failure
             ELSE mul3_loop_overwrite(coo_, value, vec_a, vec_b, n + 1,
                      [res EXCEPT ![i + 1] =
                          value[n] * vec_a[j + 1] * vec_b[k + 1]])

RECURSIVE mul3_loop(_, _, _, _, _, _)
mul3_loop(coo_, value, vec_a, vec_b, n, res) ==
    IF n > Len(coo_) THEN Ok(res)
    ELSE LET i == coo_[n][1]
             j == coo_[n][2]
             k == coo_[n][3]
         IN  IF i + 1 > Len(res) \/ j + 1 > Len(vec_a) \/ k + 1 > Len(vec_b)
             THEN Failure
             ELSE mul3_loop(coo_, value, vec_a, vec_b, n + 1,
                      [res EXCEPT ![i + 1] =
                          @ + value[n] * vec_a[j + 1] * vec_b[k + 1]])

\* res[coo[n,0]] += value[n] * vec_a[coo[n,1]] * vec_b[coo[n,2]]
sparse_mul3(coo_, value, vec_a, vec_b) ==
    mul3_loop(coo_, value, vec_a, vec_b, 1, zeros(Len(vec_a)))

RECURSIVE mul2_loop(_, _, _, _, _)
mul2_loop(coo_, value, vec, n, res) ==
    IF n > Len(coo_) THEN Ok(res)
    ELSE LET i == coo_[n][1]
             j == coo_[n][2]
             k == coo_[n][3]
         IN  IF i + 1 > Len(res) \/ j + 1 > Len(res) \/ k + 1 > Len(vec)
             THEN Failure
             ELSE mul2_loop(coo_, value, vec, n + 1,
                      [res EXCEPT ![i + 1][j + 1] = @ + value[n] * vec[k + 1]])

\* res[coo[n,0], coo[n,1]] += value[n] * vec[coo[n,2]]
sparse_mul2(coo_, value, vec) ==
    mul2_loop(coo_, value, vec, 1, zero_rows(Len(vec), Len(vec)))

\* -------------------------------------------------------------- state
VARIABLES
    params,                 \* ablocks, goblocks, gotemperature_params._name
    return_inner_products,  \* flag of create_tendencies
    return_qgtensor,        \* flag of create_tendencies
    builderTensor,          \* the tensor QgsTensor computes for params
    caller,                 \* "driver": states of length ndim; "any": any length
    active,                 \* the calling contexts in use
    pc,                     \* position inside create_tendencies
    aip, oip,               \* the coefficient providers
    connectCalls,           \* number of connect_to_ocean invocations
    agotensor,              \* the assembled QgsTensor
    coo, val, jcoo, jval,   \* arrays the evaluators close over
    ret,                    \* the returned list
    call                    \* per calling context: the evaluator call in flight

vars == << params, return_inner_products, return_qgtensor, builderTensor,
           caller, active, pc, aip, oip, connectCalls, agotensor,
           coo, val, jcoo, jval, ret, call >>

config == << params, return_inner_products, return_qgtensor, builderTensor,
             caller, active >>
build == << aip, oip, connectCalls, agotensor >>
bound == << coo, val, jcoo, jval >>

NoneObj == [isNone |-> TRUE, ocean |-> FALSE]
Provider == [isNone |-> FALSE, ocean |-> FALSE]
NoQgsTensor ==
    [ built |-> FALSE, aip |-> NoneObj, oip |-> NoneObj,
      tensor |-> EmptyTensor, jacobian_tensor |-> EmptyTensor ]

IdleCall ==
    [ pc |-> "idle", kind |-> "none", t |-> 0, x |-> <<>>, xx |-> <<>>,
      out |-> NoOut, overlapped |-> FALSE ]

ParamSets ==
    [ ablocks : {"None", "blocks"},
      goblocks : {"None", "blocks"},
      gotemperature_name : {"Oceanic Temperature", "Ground Temperature"} ]

\* The configuration qgs_maooam.py sets up: atmosphere and ocean modes.
DriverParams ==
    [ ablocks |-> "blocks", goblocks |-> "blocks",
      gotemperature_name |-> "Oceanic Temperature" ]

InitRest ==
    /\ pc = "start"
    /\ aip = NoneObj
    /\ oip = NoneObj
    /\ connectCalls = 0
    /\ agotensor = NoQgsTensor
    /\ coo = <<>>
    /\ val = <<>>
    /\ jcoo = <<>>
    /\ jval = <<>>
    /\ ret = <<>>
    /\ call = [th \in Callers |-> IdleCall]

\* The driver's run: default flags, one integrator, states of length ndim.
Init ==
    /\ params = DriverParams
    /\ return_inner_products = FALSE
    /\ return_qgtensor = FALSE
    /\ builderTensor \in Tensors \cup SingleTensors
    /\ caller = "driver"
    /\ active = {1}
    /\ InitRest

\* Any configuration and any flags.
InitLife ==
    /\ params \in ParamSets
    /\ return_inner_products \in BOOLEAN
    /\ return_qgtensor \in BOOLEAN
    /\ builderTensor \in SmallTensors
    /\ caller = "driver"
    /\ active = {1}
    /\ InitRest

\* Two calling contexts evaluating the same bound pair.
InitConc ==
    /\ params = DriverParams
    /\ return_inner_products = FALSE
    /\ return_qgtensor = FALSE
    /\ builderTensor \in SmallTensors
    /\ caller = "driver"
    /\ active = Callers
    /\ InitRest

\* A caller that may pass a state vector of any length.
InitAny ==
    /\ params = DriverParams
    /\ return_inner_products = FALSE
    /\ return_qgtensor = FALSE
    /\ builderTensor \in SmallTensors
    /\ caller = "any"
    /\ active = {1}
    /\ InitRest

\* ------------------------------------------------- create_tendencies
\* if params.ablocks is not None: aip = AtmosphericInnerProducts(params)
MakeAip ==
    /\ pc = "start"
    /\ aip' = IF params.ablocks # "None" THEN Provider ELSE NoneObj
    /\ pc' = "aip"
    /\ UNCHANGED << config, oip, connectCalls, agotensor, bound, ret, call >>

OceanConfigured(p) ==
    p.goblocks # "None" /\ p.gotemperature_name = "Oceanic Temperature"

MakeOip ==
    /\ pc = "aip"
    /\ oip' = IF OceanConfigured(params) THEN Provider ELSE NoneObj
    /\ pc' = "oip"
    /\ UNCHANGED << config, aip, connectCalls, agotensor, bound, ret, call >>

\* Variant: couples whenever the atmospheric provider exists.
ShouldConnect_atmosphere_only(a, o) == ~a.isNone

ShouldConnect(a, o) == ~a.isNone /\ ~o.isNone

\* aip.connect_to_ocean(oip): binds the ocean provider to the atmospheric one.
connect_to_ocean(a, o) == [a EXCEPT !.ocean = TRUE]

Couple ==
    /\ pc = "oip"
    /\ IF ShouldConnect(aip, oip)
       THEN /\ aip' = connect_to_ocean(aip, oip)
            /\ connectCalls' = connectCalls + 1
       ELSE UNCHANGED << aip, connectCalls >>
    /\ pc' = "coupled"
    /\ UNCHANGED << config, oip, agotensor, bound, ret, call >>

\* QgsTensor(aip, oip): fails without an atmospheric provider.
QgsTensor(a, o) ==
    [ built |-> ~a.isNone, aip |-> a, oip |-> o,
      tensor |-> IF a.isNone THEN EmptyTensor ELSE builderTensor,
      jacobian_tensor |->
          IF a.isNone THEN EmptyTensor ELSE JacobianFromTensor(builderTensor) ]

Assemble ==
    /\ pc = "coupled"
    /\ agotensor' = QgsTensor(aip, oip)
    /\ pc' = IF agotensor'.built THEN "assembled" ELSE "error"
    /\ UNCHANGED << config, aip, oip, connectCalls, bound, ret, call >>

\* coo = agotensor.tensor.coords.T ; val = agotensor.tensor.data ; def f
BindF ==
    /\ pc = "assembled"
    /\ coo' = TransposeCoords(agotensor.tensor.coords)
    /\ val' = agotensor.tensor.data
    /\ pc' = "f_bound"
    /\ UNCHANGED << config, build, jcoo, jval, ret, call >>

\* Variant: Df is closed over the trilinear tensor's arrays.
BindDf_from_tensor ==
    /\ pc = "f_bound"
    /\ jcoo' = TransposeCoords(agotensor.tensor.coords)
    /\ jval' = agotensor.tensor.data
    /\ pc' = "Df_bound"
    /\ UNCHANGED << config, build, coo, val, ret, call >>

\* jcoo = agotensor.jacobian_tensor.coords.T ; jval = ... ; def Df
BindDf ==
    /\ pc = "f_bound"
    /\ jcoo' = TransposeCoords(agotensor.jacobian_tensor.coords)
    /\ jval' = agotensor.jacobian_tensor.data
    /\ pc' = "Df_bound"
    /\ UNCHANGED << config, build, coo, val, ret, call >>

\* Variant: the inner products are appended whatever the flag says.
ReturnList_always_inner(rip, rqt) ==
    << "f", "Df" >>
    \o << <<aip, oip>> >>
    \o (IF rqt THEN << agotensor >> ELSE <<>>)

\* ret = [f, Df] (+ (aip, oip)) (+ agotensor)
ReturnList(rip, rqt) ==
    << "f", "Df" >>
    \o (IF rip THEN << <<aip, oip>> >> ELSE <<>>)
    \o (IF rqt THEN << agotensor >> ELSE <<>>)

Return ==
    /\ pc = "Df_bound"
    /\ ret' = ReturnList(return_inner_products, return_qgtensor)
    /\ pc' = "returned"
    /\ UNCHANGED << config, build, bound, call >>

\* ------------------------------------------------------- evaluators
\* Variant: the augmentation component follows the time argument.
f_xx_timed(t, x) == <<1 + t>> \o x

\* xx = np.concatenate((np.full((1,), 1.), x))
f_xx(t, x) == <<1>> \o x

\* Variant: returns xr[:-1], dropping the last row instead of row 0.
f_on_drop_last(c, v, xx) ==
    LET xr == sparse_mul3(c, v, xx, xx)
    IN  IF xr.status = "ok"
        THEN Ok(SubSeq(xr.value, 1, Len(xr.value) - 1))
        ELSE Failure

\* xr = sparse_mul3(c, v, xx, xx) ; return xr[1:]
f_on(c, v, xx) ==
    LET xr == sparse_mul3(c, v, xx, xx)
    IN  IF xr.status = "ok" THEN Ok(Tail(xr.value)) ELSE Failure

f_ret(xx) == f_on(coo, val, xx)

Df_xx(t, x) == <<1>> \o x

\* Variant: returns mul_jac[1:], keeping the augmentation column.
Df_on_rows_only(jc, jv, xx) ==
    LET mul_jac == sparse_mul2(jc, jv, xx)
    IN  IF mul_jac.status = "ok" THEN Ok(Tail(mul_jac.value)) ELSE Failure

\* mul_jac = sparse_mul2(jc, jv, xx) ; return mul_jac[1:, 1:]
Df_on(jc, jv, xx) ==
    LET mul_jac == sparse_mul2(jc, jv, xx)
    IN  IF mul_jac.status = "ok"
        THEN LET rows == Tail(mul_jac.value)
             IN  Ok([r \in 1..Len(rows) |-> Tail(rows[r])])
        ELSE Failure

Df_ret(xx) == Df_on(jcoo, jval, xx)

\* The state vectors a caller passes.
Inputs == IF caller = "driver" THEN States ELSE States \cup WrongStates

\* Bookkeeping: another context has a call in flight when this one returns.
OthersRunning(th) == \E o \in Callers \ {th} : call[o].pc = "running"

CanCall(th) ==
    /\ pc = "returned"
    /\ th \in active
    /\ call[th].pc \in {"idle", "done"}

\* Variant: xx is one buffer shared by every calling context.
f_begin_shared_xx(th, t, x) ==
    /\ CanCall(th)
    /\ call' = [o \in Callers |->
                   IF o = th
                   THEN [ pc |-> "running", kind |-> "f", t |-> t, x |-> x,
                          xx |-> f_xx(t, x), out |-> NoOut,
                          overlapped |-> FALSE ]
                   ELSE IF call[o].pc = "running"
                        THEN [call[o] EXCEPT !.xx = f_xx(t, x)]
                        ELSE call[o]]
    /\ UNCHANGED << config, pc, build, bound, ret >>

f_begin(th, t, x) ==
    /\ CanCall(th)
    /\ call' = [call EXCEPT ![th] =
                   [ pc |-> "running", kind |-> "f", t |-> t, x |-> x,
                     xx |-> f_xx(t, x), out |-> NoOut, overlapped |-> FALSE ]]
    /\ UNCHANGED << config, pc, build, bound, ret >>

f_end(th) ==
    /\ call[th].pc = "running"
    /\ call[th].kind = "f"
    /\ call' = [call EXCEPT ![th].pc = "done",
                            ![th].out = f_ret(call[th].xx),
                            ![th].overlapped = OthersRunning(th)]
    /\ UNCHANGED << config, pc, build, bound, ret >>

Df_begin(th, t, x) ==
    /\ CanCall(th)
    /\ call' = [call EXCEPT ![th] =
                   [ pc |-> "running", kind |-> "Df", t |-> t, x |-> x,
                     xx |-> Df_xx(t, x), out |-> NoOut, overlapped |-> FALSE ]]
    /\ UNCHANGED << config, pc, build, bound, ret >>

Df_end(th) ==
    /\ call[th].pc = "running"
    /\ call[th].kind = "Df"
    /\ call' = [call EXCEPT ![th].pc = "done",
                            ![th].out = Df_ret(call[th].xx),
                            ![th].overlapped = OthersRunning(th)]
    /\ UNCHANGED << config, pc, build, bound, ret >>

CallF == \E th \in Callers, t \in Times, x \in Inputs : f_begin(th, t, x)
EndF == \E th \in Callers : f_end(th)
CallDf == \E th \in Callers, t \in Times, x \in Inputs : Df_begin(th, t, x)
EndDf == \E th \in Callers : Df_end(th)

Next ==
    \/ MakeAip
    \/ MakeOip
    \/ Couple
    \/ Assemble
    \/ BindF
    \/ BindDf
    \/ Return
    \/ CallF
    \/ EndF
    \/ CallDf
    \/ EndDf

Spec == Init /\ [][Next]_vars
SpecLife == InitLife /\ [][Next]_vars
SpecConc == InitConc /\ [][Next]_vars
SpecAny == InitAny /\ [][Next]_vars

\* ============================================================ claims
RECURSIVE SetSum(_, _)
SetSum(S, g) ==
    IF S = {} THEN 0
    ELSE LET n == CHOOSE m \in S : TRUE
         IN  g[n] + SetSum(S \ {n}, g)

Done(th, kind) == call[th].pc = "done" /\ call[th].kind = kind
Aug(x) == <<1>> \o x

\* Sum of val * xx[j] * xx[k] over the entries of row i of tensor object T.
RowSum(T, xx, i) ==
    LET es == EntriesOf(T)
    IN  SetSum({ n \in 1..Len(es) : es[n][1] = i },
               [ n \in 1..Len(es) |-> es[n][4] * xx[es[n][2] + 1] * xx[es[n][3] + 1] ])

\* Sum of val * xx[k] over the entries at position (i, j) of Jacobian object J.
CellSum(J, xx, i, j) ==
    LET es == EntriesOf(J)
    IN  SetSum({ n \in 1..Len(es) : es[n][1] = i /\ es[n][2] = j },
               [ n \in 1..Len(es) |-> es[n][4] * xx[es[n][3] + 1] ])

\* The tensor object without its entries of row 0.
WithoutRow0(T) ==
    CooTensor(SelectSeq(EntriesOf(T), LAMBDA e : e[1] # 0))

\* The Jacobian object without its entries of row 0 or column 0.
WithoutRowCol0(J) ==
    CooTensor(SelectSeq(EntriesOf(J), LAMBDA e : e[1] # 0 /\ e[2] # 0))

\* C1: a finished call f(t, x) with x of length N returns the vector of
\* length N whose component i-1 is the sum, over the tensor's entries of row
\* i, of val * xx[j] * xx[k] with xx = [1, x]; a row without entries gives 0
\* and the entries of row 0 have no influence on the result.
C1_TendencyIsRowSums ==
    \A th \in Callers :
        (Done(th, "f") /\ Len(call[th].x) = NDim) =>
            LET xx == Aug(call[th].x)
                T == agotensor.tensor
                T0 == WithoutRow0(T)
            IN  /\ call[th].out.status = "ok"
                /\ Len(call[th].out.value) = NDim
                /\ \A i \in 1..NDim : call[th].out.value[i] = RowSum(T, xx, i)
                /\ \A i \in 1..NDim :
                       (\A n \in 1..Len(T.data) : T.coords[1][n] # i)
                           => call[th].out.value[i] = 0
                /\ call[th].out = f_on(TransposeCoords(T0.coords), T0.data, xx)

\* Two entries accumulate in row 1, row 2 has none, and a call has returned.
C1_Witness ==
    /\ Done(1, "f")
    /\ Len(agotensor.tensor.data) = 2
    /\ agotensor.tensor.coords[1] = <<1, 1>>
    /\ agotensor.tensor.coords[2] # agotensor.tensor.coords[3]
    /\ call[1].out.status = "ok"
    /\ call[1].out.value[1] # 0
    /\ call[1].out.value[2] = 0

\* C2: a finished call Df(t, x) with x of length N returns the N x N matrix
\* M[1:,1:], where M[i,j] is the sum, over the Jacobian entries stored at
\* (i, j), of the value times xx[k]; entries of row 0 or column 0 have no
\* influence on the result.
C2_JacobianIsCellSums ==
    \A th \in Callers :
        (Done(th, "Df") /\ Len(call[th].x) = NDim) =>
            LET xx == Aug(call[th].x)
                J == agotensor.jacobian_tensor
                J0 == WithoutRowCol0(J)
            IN  /\ call[th].out.status = "ok"
                /\ Len(call[th].out.value) = NDim
                /\ \A i \in 1..NDim :
                       /\ Len(call[th].out.value[i]) = NDim
                       /\ \A j \in 1..NDim :
                              call[th].out.value[i][j] = CellSum(J, xx, i, j)
                /\ call[th].out = Df_on(TransposeCoords(J0.coords), J0.data, xx)

\* A Jacobian with stored entries in column 0 and elsewhere has been evaluated.
C2_Witness ==
    /\ Done(1, "Df")
    /\ Len(agotensor.tensor.data) = 2
    /\ \E n \in 1..Len(agotensor.jacobian_tensor.data) :
           agotensor.jacobian_tensor.coords[2][n] = 0
    /\ call[1].out.status = "ok"
    /\ \E i, j \in 1..NDim : call[1].out.value[i][j] # 0

\* x with component j (1-based) moved by d.
Shift(x, j, d) == [x EXCEPT ![j] = @ + d]

\* C3: with the single entry (1, 1, 2, b), f(t, x)[0] = b*x[0]*x[1],
\* Df(t, x)[0,0] = b*x[1] and Df(t, x)[0,1] = b*x[0]; and for every bound
\* pair the matrix Df returns is the derivative of the quadratic map f:
\* f(x + e_j) - f(x - e_j) = 2 * Df(x)[:, j].
C3_ProductRule ==
    \A th \in Callers :
        LET x == call[th].x
            es == EntriesOf(agotensor.tensor)
        IN  /\ (Done(th, "f") /\ Len(es) = 1 /\ SubSeq(es[1], 1, 3) = <<1, 1, 2>>)
                => /\ call[th].out.status = "ok"
                   /\ call[th].out.value[1] = es[1][4] * x[1] * x[2]
            /\ (Done(th, "Df") /\ Len(es) = 1 /\ SubSeq(es[1], 1, 3) = <<1, 1, 2>>)
                => /\ call[th].out.status = "ok"
                   /\ call[th].out.value[1][1] = es[1][4] * x[2]
                   /\ call[th].out.value[1][2] = es[1][4] * x[1]
            /\ (Done(th, "Df") /\ Len(x) = NDim)
                => /\ call[th].out.status = "ok"
                   /\ \A i, j \in 1..NDim :
                          f_ret(f_xx(call[th].t, Shift(x, j, 1))).value[i]
                          - f_ret(f_xx(call[th].t, Shift(x, j, -1))).value[i]
                          = 2 * call[th].out.value[i][j]

\* Df has been evaluated on the tensor holding only (1, 1, 2, b).
C3_Witness ==
    /\ Done(1, "Df")
    /\ Len(agotensor.tensor.data) = 1
    /\ EntriesOf(agotensor.tensor)[1][1] = 1
    /\ EntriesOf(agotensor.tensor)[1][2] = 1
    /\ EntriesOf(agotensor.tensor)[1][3] = 2
    /\ call[1].out.status = "ok"
    /\ call[1].out.value[1][2] # 0

\* The entries es with entry q removed and its value added to entry p.
MergeEntries(es, p, q) ==
    [ n \in 1..(Len(es) - 1) |->
        LET m == IF n < q THEN n ELSE n + 1
        IN  IF m = p
            THEN <<es[p][1], es[p][2], es[p][3], es[p][4] + es[q][4]>>
            ELSE es[m] ]

\* C4: when two entries of the tensor share their coordinates (i, j, k),
\* every finished call returns what the same evaluator returns for the
\* tensor in which the two are replaced by one entry carrying v1 + v2.
C4_DuplicatesAccumulate ==
    \A th \in Callers :
        LET es == EntriesOf(builderTensor)
        IN  \A p, q \in 1..Len(es) :
                (p < q /\ SubSeq(es[p], 1, 3) = SubSeq(es[q], 1, 3)) =>
                    LET Tm == CooTensor(MergeEntries(es, p, q))
                        Jm == JacobianFromTensor(Tm)
                    IN  /\ Done(th, "f") =>
                            call[th].out =
                                f_on(TransposeCoords(Tm.coords), Tm.data, call[th].xx)
                        /\ Done(th, "Df") =>
                            call[th].out =
                                Df_on(TransposeCoords(Jm.coords), Jm.data, call[th].xx)

\* f has been evaluated on a tensor whose two entries share their coordinates.
C4_Witness ==
    /\ Done(1, "f")
    /\ Len(builderTensor.data) = 2
    /\ \A r \in 1..3 : builderTensor.coords[r][1] = builderTensor.coords[r][2]
    /\ builderTensor.coords[1][1] = 1
    /\ builderTensor.data[1] # builderTensor.data[2]
    /\ call[1].out.status = "ok"
    /\ call[1].out.value[1] # 0

\* C5: two finished calls of the same evaluator with the same x and
\* different times t1 # t2 have returned the same result.
C5_Autonomy ==
    \A a, b \in Callers :
        ( /\ call[a].pc = "done"
          /\ call[b].pc = "done"
          /\ call[a].kind = call[b].kind
          /\ call[a].x = call[b].x
          /\ call[a].t # call[b].t )
            => call[a].out = call[b].out

\* Two f calls with equal x and different t have both returned a nonzero result.
C5_Witness ==
    /\ Done(1, "f")
    /\ Done(2, "f")
    /\ call[1].x = call[2].x
    /\ call[1].t # call[2].t
    /\ call[1].out.status = "ok"
    /\ \E i \in 1..NDim : call[1].out.value[i] # 0

\* C6: a call of f or Df with a state vector whose length is not N ends
\* in an error.
C6_WrongLengthIsAnError ==
    \A th \in Callers :
        (call[th].pc = "done" /\ Len(call[th].x) # NDim)
            => call[th].out.status = "error"

\* C7: create_tendencies gets past the assembly only when the atmospheric
\* provider exists and the ocean blocks, if configured, come with the
\* "Oceanic Temperature" configuration; the atmosphere-only tensor is built
\* only when no ocean block is configured.
C7_ConfigurationErrorsAreFatal ==
    pc \in {"assembled", "f_bound", "Df_bound", "returned"} =>
        /\ params.ablocks # "None"
        /\ (params.goblocks # "None"
                => params.gotemperature_name = "Oceanic Temperature")
        /\ (oip.isNone => params.goblocks = "None")

\* The arrays a fresh pair built from the same tensor closes over.
FreshResult(kind, xx) ==
    LET T == builderTensor
        J == JacobianFromTensor(builderTensor)
    IN  IF kind = "f"
        THEN f_on(TransposeCoords(T.coords), T.data, xx)
        ELSE Df_on(TransposeCoords(J.coords), J.data, xx)

\* C8: once the pair is bound no step changes coo, val, jcoo or jval; a
\* step of one calling context leaves the other context's call alone; and
\* every finished call has returned what the same call returns when made
\* alone on a fresh pair, whatever preceded or overlapped it.
C8_EvaluatorsArePure ==
    /\ [](\A th \in Callers :
            call[th].pc = "done" =>
                /\ call[th].xx = Aug(call[th].x)
                /\ call[th].out = FreshResult(call[th].kind, Aug(call[th].x)))
    /\ [][ /\ pc = "returned" => bound' = bound
           /\ \A a, b \in Callers :
                  (a # b /\ call'[a] # call[a]) => call'[b] = call[b] ]_vars

\* A call has returned a nonzero result while the other context's call,
\* on a different state, was in flight.
C8_Witness ==
    /\ call[1].pc = "done"
    /\ call[1].overlapped
    /\ call[2].pc = "running"
    /\ call[2].x # call[1].x
    /\ call[1].out.status = "ok"
    /\ call[1].kind = "f"
    /\ \E i \in 1..NDim : call[1].out.value[i] # 0

\* C9: the returned list starts with f and Df, then holds (aip, oip) iff
\* return_inner_products, then the QgsTensor iff return_qgtensor; and the
\* arrays f and Df are closed over are those of the tensor built for the
\* parameters, whatever the flags.
C9_ReturnList ==
    pc = "returned" =>
        LET n == Len(ret)
            J == JacobianFromTensor(builderTensor)
        IN  /\ n = 2 + (IF return_inner_products THEN 1 ELSE 0)
                     + (IF return_qgtensor THEN 1 ELSE 0)
            /\ ret[1] = "f"
            /\ ret[2] = "Df"
            /\ return_inner_products => ret[3] = <<aip, oip>>
            /\ return_qgtensor => ret[n] = agotensor
            /\ coo = TransposeCoords(builderTensor.coords)
            /\ val = builderTensor.data
            /\ jcoo = TransposeCoords(J.coords)
            /\ jval = J.data

\* Both flags set: four elements were returned.
C9_Witness ==
    /\ pc = "returned"
    /\ return_inner_products
    /\ return_qgtensor
    /\ Len(ret) = 4
    /\ Len(val) = 1

\* C10: connect_to_ocean is invoked at most once, only when both providers
\* exist, and then before the QgsTensor is assembled: the assembled tensor
\* holds the coupled provider; nothing after the coupling step, a call of f
\* or Df included, invokes it; with only the atmospheric provider the tensor
\* is assembled with oip = None and no coupling.
C10_CouplingLifecycle ==
    /\ [](/\ connectCalls <= 1
          /\ connectCalls = 1 => (~aip.isNone /\ ~oip.isNone /\ aip.ocean)
          /\ agotensor.built =>
                /\ agotensor.aip = aip
                /\ agotensor.oip = oip
                /\ (connectCalls = 1) = (~oip.isNone)
                /\ agotensor.aip.ocean = (~agotensor.oip.isNone))
    /\ [][ pc # "oip" => (connectCalls' = connectCalls /\ aip'.ocean = aip.ocean) ]_vars

\* A coupled pair has been returned and evaluated.
C10_Witness ==
    /\ pc = "returned"
    /\ connectCalls = 1
    /\ agotensor.aip.ocean
    /\ call[1].pc = "done"

====
